---- MODULE Spec2Model ----
(***************************************************************************)
(* Model of main.py, the polar-plant EC dashboard script.  One run of the  *)
(* script is a straight line: resolve and load the four environmental CSV  *)
(* files, load the growth workbook, stop if either mapping is empty, read  *)
(* the sidebar selector, then compute tab 1, tab 2 and tab 3.  An          *)
(* unhandled Python exception ends the run (pc = "crashed").               *)
(*                                                                         *)
(* File names are sequences of code points.  Hangul is modelled as the     *)
(* Unicode standard defines it: a precomposed syllable decomposes into a   *)
(* leading consonant, a vowel and an optional trailing consonant, and      *)
(* canonical composition puts them together again.  School names and the   *)
(* fixed suffixes are abbreviated to their first syllable.                 *)
(***************************************************************************)
EXTENDS Integers, Sequences, FiniteSets

\* ---------------------------------------------------------------- bounds
MaxEnvRows == 1
MaxSheets == 2
MaxPlants == 1
MaxWeight == 2
MaxDir == 3

\* ------------------------------------------------------- code points
Cp(k, l, v, t) == [k |-> k, l |-> l, v |-> v, t |-> t]
Syl(l, v, t) == Cp("S", l, v, t)
Ascii(c) == Cp("A", c, "", "")

\* canonical decomposition of one code point
Decompose(c) ==
    IF c.k = "S"
    THEN <<Cp("L", c.l, "", ""), Cp("V", "", c.v, "")>>
         \o (IF c.t = "" THEN <<>> ELSE <<Cp("T", "", "", c.t)>>)
    ELSE <<c>>

RECURSIVE NFD(_)
NFD(name) ==
    IF name = <<>> THEN <<>> ELSE Decompose(Head(name)) \o NFD(Tail(name))

\* canonical composition: L+V -> LV, LV+T -> LVT, scanning left to right
RECURSIVE Compose(_, _)
Compose(out, rest) ==
    IF rest = <<>> THEN out
    ELSE LET c == Head(rest)
             n == Len(out)
         IN IF n > 0 /\ out[n].k = "L" /\ c.k = "V"
            THEN Compose([out EXCEPT ![n] = Syl(out[n].l, c.v, "")], Tail(rest))
            ELSE IF n > 0 /\ out[n].k = "S" /\ out[n].t = "" /\ c.k = "T"
            THEN Compose([out EXCEPT ![n] = Syl(out[n].l, out[n].v, c.t)], Tail(rest))
            ELSE Compose(Append(out, c), Tail(rest))

\* a comparison of the raw names, without normalization
normalize_name_raw(name) == name

normalize_name(name) == Compose(<<>>, NFD(name))

\* ---------------------------------------------------- names in the source
Songdo == <<Syl("s", "o", "ng")>>
Haneul == <<Syl("h", "a", "")>>
Ara == <<Syl("ng", "a", "")>>
Dongsan == <<Syl("d", "o", "ng")>>

Underscore == Ascii("_")
EnvSuffix == <<Underscore, Syl("h", "wa", "n"), Ascii(".csv")>>

csv_targets == <<Songdo \o EnvSuffix, Haneul \o EnvSuffix,
                 Ara \o EnvSuffix, Dongsan \o EnvSuffix>>

xlsx_name == <<Ascii("4"), Syl("g", "ae", ""), Underscore,
               Syl("s", "ae", "ng"), Ascii(".xlsx")>>

Schools == {Songdo, Haneul, Ara, Dongsan}

\* an optional value: <<>> is the None of the source, <<v>> a value
None == <<>>
Some(v) == <<v>>

EC_MAP == [s \in Schools |->
             IF s = Songdo THEN 1 ELSE IF s = Haneul THEN 2
             ELSE IF s = Ara THEN 4 ELSE 8]

COLOR_MAP == [s \in Schools |->
                IF s = Songdo THEN "#1f77b4" ELSE IF s = Haneul THEN "#2ca02c"
                ELSE IF s = Ara THEN "#ff7f0e" ELSE "#d62728"]

\* dict.get(key): the value, or None for a key the dict does not have
DictGet(d, k) == IF k \in DOMAIN d THEN Some(d[k]) ELSE None

All == <<Ascii("all")>>
SchoolOptions == <<All, Songdo, Haneul, Ara, Dongsan>>

\* name.split("_")[0]
RECURSIVE SplitPrefix(_)
SplitPrefix(name) ==
    IF name = <<>> \/ Head(name) = Underscore THEN <<>>
    ELSE <<Head(name)>> \o SplitPrefix(Tail(name))

\* ---------------------------------------------------------------- state
VARIABLES
    disk,             \* DATA_DIR in enumeration order: name and content of each file
    school_option,    \* the value of the sidebar selectbox
    pc,               \* position of the run in the script
    env_data,         \* dict school -> table, in insertion order
    growth_data,      \* dict sheet -> table, in insertion order
    file_paths,       \* what find_file_safe returned for each CSV target so far
    messages,         \* st.error messages emitted by the loaders
    error,            \* the unhandled exception that ended the run, if any
    selected_schools,
    overview_rows, total_plants, optimal_school,
    avg_rows, full_env, ec_weight, all_growth,
    rendered          \* the post-load steps that completed, in order

vars == <<disk, school_option, pc, env_data, growth_data, file_paths, messages,
          error, selected_schools, overview_rows, total_plants, optimal_school,
          avg_rows, full_env, ec_weight, all_growth, rendered>>

outputs == <<selected_schools, overview_rows, total_plants, optimal_school,
             avg_rows, full_env, ec_weight, all_growth>>

NoError == [exc |-> "", at |-> ""]

\* ------------------------------------------------------- ordered dicts
Keys(d) == {d[i].school : i \in 1..Len(d)}
HasKey(d, k) == \E i \in 1..Len(d) : d[i].school = k
Lookup(d, k) == d[CHOOSE i \in 1..Len(d) : d[i].school = k].df

\* d[k] = df: replaces the value of an existing key in place, else appends
DictSet(d, k, df) ==
    IF HasKey(d, k)
    THEN [i \in 1..Len(d) |-> IF d[i].school = k THEN [school |-> k, df |-> df] ELSE d[i]]
    ELSE Append(d, [school |-> k, df |-> df])

\* ------------------------------------------------------- the resolver
Dir == [i \in 1..Len(disk) |-> disk[i].name]

\* the first entry whose normalized name equals the normalized target;
\* 0 stands for the None of the source
RECURSIVE FindFrom(_, _, _)
FindFrom(directory, target_nfc, i) ==
    IF i > Len(directory) THEN 0
    ELSE IF normalize_name(directory[i]) = target_nfc THEN i
    ELSE FindFrom(directory, target_nfc, i + 1)

RECURSIVE FindFromRaw(_, _, _)
FindFromRaw(directory, target, i) ==
    IF i > Len(directory) THEN 0
    ELSE IF normalize_name_raw(directory[i]) = target THEN i
    ELSE FindFromRaw(directory, target, i + 1)

\* a resolver that compares the names as stored
find_file_safe_raw(directory, target_name) ==
    FindFromRaw(directory, normalize_name_raw(target_name), 1)

find_file_safe(directory, target_name) ==
    FindFrom(directory, normalize_name(target_name), 1)

\* ------------------------------------------------------- the loaders
\* pd.read_csv: one record per data row of the file
read_csv(file) == [k \in 1..file.rows |-> [time |-> k, temperature |-> k]]

\* df["school"] = value
TagRows(df, s) ==
    [k \in 1..Len(df) |-> [c \in (DOMAIN df[k]) \cup {"school"} |->
                              IF c = "school" THEN s ELSE df[k][c]]]

\* the loop of load_environment_data from target i on; acc is the state of the
\* function: the dict, the messages, the resolved paths and a raised exception
RECURSIVE LoadEnvFrom(_, _)
LoadEnvFrom(i, acc) ==
    IF i > Len(csv_targets) THEN acc
    ELSE LET name == csv_targets[i]
             file_path == find_file_safe(Dir, name)
             paths == Append(acc.paths, file_path)
         IN IF file_path = 0
            THEN LoadEnvFrom(i + 1, [acc EXCEPT !.paths = paths,
                                                !.messages = Append(@, name)])
            ELSE LET df == TagRows(read_csv(disk[file_path]), SplitPrefix(name))
                 IN IF Len(df) = 0
                    \* df["school"].iloc[0] on a table without rows
                    THEN [acc EXCEPT !.paths = paths, !.raised = "IndexError"]
                    ELSE LoadEnvFrom(i + 1,
                           [acc EXCEPT !.paths = paths,
                                       !.data = DictSet(@, df[1].school, df)])

load_environment_data ==
    LoadEnvFrom(1, [data |-> <<>>, messages |-> <<>>, paths |-> <<>>, raised |-> ""])

\* pd.read_excel of one sheet: one record per plant
read_excel(sh) == [k \in 1..Len(sh.weights) |-> [weight |-> sh.weights[k]]]

RECURSIVE LoadSheetsFrom(_, _, _)
LoadSheetsFrom(sheets, i, data) ==
    IF i > Len(sheets) THEN data
    ELSE LoadSheetsFrom(sheets, i + 1,
            DictSet(data, sheets[i].sheet, TagRows(read_excel(sheets[i]), sheets[i].sheet)))

load_growth_data ==
    LET file_path == find_file_safe(Dir, xlsx_name)
    IN IF file_path = 0
       THEN [data |-> <<>>, messages |-> <<xlsx_name>>]
       ELSE [data |-> LoadSheetsFrom(disk[file_path].sheets, 1, <<>>), messages |-> <<>>]

\* ------------------------------------------------------- the aggregates
RECURSIVE SumSeq(_)
SumSeq(xs) == IF xs = <<>> THEN 0 ELSE Head(xs) + SumSeq(Tail(xs))

Column(df, c) == [k \in 1..Len(df) |-> df[k][c]]

\* Series.mean(): a rational num/den, or NaN for a column without values
NaN == [nan |-> TRUE, num |-> 0, den |-> 1]
Mean(xs) == IF xs = <<>> THEN NaN ELSE [nan |-> FALSE, num |-> SumSeq(xs), den |-> Len(xs)]

\* a > b on floats: every comparison with NaN is false
Greater(a, b) == ~a.nan /\ ~b.nan /\ a.num * b.den > b.num * a.den

\* a comparison that also replaces the running maximum on equality
GreaterOrEqual(a, b) == ~a.nan /\ ~b.nan /\ a.num * b.den >= b.num * a.den

\* pd.concat(d.values()): the rows of every table, in dict order
RECURSIVE ConcatFrom(_, _)
ConcatFrom(d, i) == IF i > Len(d) THEN <<>> ELSE d[i].df \o ConcatFrom(d, i + 1)

\* a concatenation that leaves out the last table
concat_drop_last(d) == ConcatFrom(SubSeq(d, 1, Len(d) - 1), 1)

concat(d) == ConcatFrom(d, 1)

\* lines 159-169: one row per item of growth_data, and the running total
RECURSIVE OverviewFrom(_, _, _)
OverviewFrom(d, i, acc) ==
    IF i > Len(d) THEN acc
    ELSE LET school == d[i].school
             count == Len(d[i].df)
         IN OverviewFrom(d, i + 1,
              [rows |-> Append(acc.rows, [school |-> school,
                                          ec |-> DictGet(EC_MAP, school),
                                          count |-> count,
                                          color |-> DictGet(COLOR_MAP, school)]),
               total |-> acc.total + count])

\* an overview that leaves out the sheets without plants
RECURSIVE OverviewSkipEmpty(_, _, _)
OverviewSkipEmpty(d, i, acc) ==
    IF i > Len(d) THEN acc
    ELSE IF Len(d[i].df) = 0 THEN OverviewSkipEmpty(d, i + 1, acc)
    ELSE OverviewSkipEmpty(d, i + 1,
              [rows |-> Append(acc.rows, [school |-> d[i].school,
                                          ec |-> DictGet(EC_MAP, d[i].school),
                                          count |-> Len(d[i].df),
                                          color |-> DictGet(COLOR_MAP, d[i].school)]),
               total |-> acc.total + Len(d[i].df)])

overview_skip_empty(d) == OverviewSkipEmpty(d, 1, [rows |-> <<>>, total |-> 0])

overview(d) == OverviewFrom(d, 1, [rows |-> <<>>, total |-> 0])

\* lines 182-185
weight_means(d) == [i \in 1..Len(d) |-> Mean(Column(d[i].df, "weight"))]

\* max(weight_means, key=weight_means.get): the first key is the running
\* maximum, a later key replaces it only when its mean is greater
RECURSIVE MaxFrom(_, _, _)
MaxFrom(means, i, best) ==
    IF i > Len(means) THEN best
    ELSE MaxFrom(means, i + 1, IF Greater(means[i], means[best]) THEN i ELSE best)

py_max(d) == d[MaxFrom(weight_means(d), 2, 1)].school

\* lines 201-211: one row per selected school; env_data[school] raises
\* KeyError for a school that is not a key
RECURSIVE AvgRowsFrom(_, _, _, _)
AvgRowsFrom(d, selected, i, acc) ==
    IF i > Len(selected) THEN acc
    ELSE LET school == selected[i]
         IN IF ~HasKey(d, school) \/ school \notin DOMAIN EC_MAP
            THEN [acc EXCEPT !.raised = "KeyError"]
            ELSE AvgRowsFrom(d, selected, i + 1,
                   [acc EXCEPT !.rows = Append(@,
                      [school |-> school,
                       temperature |-> Mean(Column(Lookup(d, school), "temperature")),
                       ec |-> EC_MAP[school]])])

avg_rows_of(d, selected) == AvgRowsFrom(d, selected, 1, [rows |-> <<>>, raised |-> ""])

\* lines 267-269: EC_MAP[school] raises KeyError for a sheet that is no key
RECURSIVE EcWeightFrom(_, _, _)
EcWeightFrom(d, i, acc) ==
    IF i > Len(d) THEN acc
    ELSE IF d[i].school \notin DOMAIN EC_MAP
    THEN [acc EXCEPT !.raised = "KeyError"]
    ELSE EcWeightFrom(d, i + 1,
           [acc EXCEPT !.rows = Append(@,
              [school |-> d[i].school, ec |-> EC_MAP[d[i].school],
               weight |-> Mean(Column(d[i].df, "weight"))])])

ec_weight_of(d) == EcWeightFrom(d, 1, [rows |-> <<>>, raised |-> ""])

\* ------------------------------------------------------- the inputs
Forms == {"NFC", "NFD"}
OnDisk(name, form) == IF form = "NFD" THEN NFD(name) ELSE name

CsvFile(i, form, rows) ==
    [name |-> OnDisk(csv_targets[i], form), rows |-> rows, sheets |-> <<>>]
BookFile(form, sheets) ==
    [name |-> OnDisk(xlsx_name, form), rows |-> 0, sheets |-> sheets]

\* the sheet names a varied workbook may carry: three of the schools, and the
\* first of them typed in decomposed form, which is no key of EC_MAP
SheetPool == <<Songdo, NFD(Songdo), Haneul, Dongsan>>

\* the weight column of a sheet: 0..MaxPlants plants of weight 1..MaxWeight,
\* listed in ascending order
WeightColumns ==
    UNION {{w \in [1..n -> 1..MaxWeight] : \A i, j \in 1..n : i <= j => w[i] <= w[j]}
              : n \in 0..MaxPlants}

\* the elements of a set of numbers in ascending order
RECURSIVE Ascending(_)
Ascending(S) ==
    IF S = {} THEN <<>>
    ELSE LET m == CHOOSE x \in S : \A y \in S : x <= y
         IN <<m>> \o Ascending(S \ {m})

Reverse(xs) == [i \in 1..Len(xs) |-> xs[Len(xs) + 1 - i]]

\* workbooks of 1..MaxSheets sheets of distinct names, in pool order or reversed
SheetOrders ==
    LET picks == {S \in SUBSET (1..Len(SheetPool)) : Cardinality(S) \in 1..MaxSheets}
    IN {Ascending(S) : S \in picks} \cup {Reverse(Ascending(S)) : S \in picks}

Workbooks ==
    UNION {{[i \in 1..Len(o) |-> [sheet |-> SheetPool[o[i]], weights |-> w[i]]]
              : w \in [1..Len(o) -> WeightColumns]} : o \in SheetOrders}

\* the workbook as the experiment produced it: one sheet per school
ReferenceBook ==
    [i \in 1..Len(csv_targets) |->
        [sheet |-> SplitPrefix(csv_targets[i]), weights |-> <<i>>]]

\* the names a varied directory listing may hold: the first and the last CSV file and
\* the workbook, in composed and in decomposed form, and a file that is none
\* of them
NamePool ==
    {OnDisk(csv_targets[i], f) : i \in {1, Len(csv_targets)}, f \in Forms}
    \cup {OnDisk(xlsx_name, f) : f \in Forms}
    \cup {<<Ascii("README")>>}

ReferenceFile(name) ==
    [name |-> name,
     rows |-> IF normalize_name(name) = xlsx_name THEN 0 ELSE 1,
     sheets |-> IF normalize_name(name) = xlsx_name THEN ReferenceBook ELSE <<>>]

Distinct(xs) == \A i, j \in 1..Len(xs) : i # j => xs[i] # xs[j]

Directories ==
    UNION {{d \in [1..n -> NamePool] : Distinct(d)} : n \in 0..MaxDir}

\* the four CSV files vary (absent, or 0..MaxEnvRows rows), the workbook is
\* absent or the reference one
DisksEnvVaried ==
    {[i \in 1..Len(ps) |-> CsvFile(ps[i], f, r[ps[i]])] \o b :
        ps \in {Ascending(S) : S \in SUBSET (1..Len(csv_targets))},
        r \in [1..Len(csv_targets) -> 0..MaxEnvRows],
        f \in Forms,
        b \in {<<>>, <<BookFile("NFC", ReferenceBook)>>}}

\* the workbook varies, the four CSV files are present with one row each
DisksGrowthVaried ==
    {[i \in 1..Len(csv_targets) |-> CsvFile(i, "NFD", 1)] \o <<BookFile("NFD", w)>> :
        w \in Workbooks}

\* the directory listing varies, every file has its reference content
DisksDirVaried ==
    {[i \in 1..Len(d) |-> ReferenceFile(d[i])] : d \in Directories}

Options == {SchoolOptions[i] : i \in 1..Len(SchoolOptions)}

Init ==
    /\ \/ disk \in DisksEnvVaried /\ school_option \in Options
       \/ disk \in DisksGrowthVaried /\ school_option = All
       \/ disk \in DisksDirVaried /\ school_option = All
    /\ pc = "load_env"
    /\ env_data = <<>>
    /\ growth_data = <<>>
    /\ file_paths = <<>>
    /\ messages = <<>>
    /\ error = NoError
    /\ selected_schools = <<>>
    /\ overview_rows = <<>>
    /\ total_plants = 0
    /\ optimal_school = None
    /\ avg_rows = <<>>
    /\ full_env = <<>>
    /\ ec_weight = <<>>
    /\ all_growth = <<>>
    /\ rendered = <<>>

\* ------------------------------------------------------- the steps
Raise(exc, at) ==
    /\ pc' = "crashed"
    /\ error' = [exc |-> exc, at |-> at]

\* line 104
LoadEnvironmentData ==
    /\ pc = "load_env"
    /\ LET r == load_environment_data
       IN /\ file_paths' = r.paths
          /\ messages' = messages \o r.messages
          /\ IF r.raised # ""
             THEN Raise(r.raised, "load_env") /\ UNCHANGED env_data
             ELSE pc' = "load_growth" /\ env_data' = r.data /\ UNCHANGED error
    /\ UNCHANGED <<disk, school_option, growth_data, outputs, rendered>>

\* line 105
LoadGrowthData ==
    /\ pc = "load_growth"
    /\ LET r == load_growth_data
       IN /\ growth_data' = r.data
          /\ messages' = messages \o r.messages
    /\ pc' = "barrier"
    /\ UNCHANGED <<disk, school_option, env_data, file_paths, error, outputs, rendered>>

\* a barrier that stops only when both mappings are empty
BarrierBoth ==
    /\ pc = "barrier"
    /\ pc' = IF env_data = <<>> /\ growth_data = <<>> THEN "stopped" ELSE "sidebar"
    /\ UNCHANGED <<disk, school_option, env_data, growth_data, file_paths, messages,
                   error, outputs, rendered>>

\* lines 107-108
Barrier ==
    /\ pc = "barrier"
    /\ pc' = IF env_data = <<>> \/ growth_data = <<>> THEN "stopped" ELSE "sidebar"
    /\ UNCHANGED <<disk, school_option, env_data, growth_data, file_paths, messages,
                   error, outputs, rendered>>

\* lines 131-138
Sidebar ==
    /\ pc = "sidebar"
    /\ selected_schools' =
         IF school_option = All
         THEN [i \in 1..Len(env_data) |-> env_data[i].school]
         ELSE <<school_option>>
    /\ pc' = "tab1_overview"
    /\ rendered' = Append(rendered, "sidebar")
    /\ UNCHANGED <<disk, school_option, env_data, growth_data, file_paths, messages,
                   error, overview_rows, total_plants, optimal_school, avg_rows,
                   full_env, ec_weight, all_growth>>

\* lines 159-177
Tab1Overview ==
    /\ pc = "tab1_overview"
    /\ LET r == overview(growth_data)
       IN /\ overview_rows' = r.rows
          /\ total_plants' = r.total
    /\ pc' = "tab1_metrics"
    /\ rendered' = Append(rendered, "overview")
    /\ UNCHANGED <<disk, school_option, env_data, growth_data, file_paths, messages,
                   error, selected_schools, optimal_school, avg_rows, full_env,
                   ec_weight, all_growth>>

\* lines 179-193: the optimal school, and EC_MAP[optimal_school], which raises
\* KeyError for a school that is no key.  The two means over the concatenated
\* environment tables (lines 179-180) are displayed only and keep no state;
\* every table of env_data has a row, so they cannot fail.
Tab1Metrics ==
    /\ pc = "tab1_metrics"
    /\ optimal_school' = Some(py_max(growth_data))
    /\ IF py_max(growth_data) \in DOMAIN EC_MAP
       THEN /\ pc' = "tab2_averages"
            /\ rendered' = Append(rendered, "metrics")
            /\ UNCHANGED error
       ELSE Raise("KeyError", "tab1_metrics") /\ UNCHANGED rendered
    /\ UNCHANGED <<disk, school_option, env_data, growth_data, file_paths, messages,
                   selected_schools, overview_rows, total_plants, avg_rows, full_env,
                   ec_weight, all_growth>>

\* lines 201-230
Tab2Averages ==
    /\ pc = "tab2_averages"
    /\ LET r == avg_rows_of(env_data, selected_schools)
       IN /\ avg_rows' = r.rows
          /\ IF r.raised # ""
             THEN Raise(r.raised, "tab2_averages") /\ UNCHANGED rendered
             ELSE /\ pc' = "tab2_timeseries"
                  /\ rendered' = Append(rendered, "averages")
                  /\ UNCHANGED error
    /\ UNCHANGED <<disk, school_option, env_data, growth_data, file_paths, messages,
                   selected_schools, overview_rows, total_plants, optimal_school,
                   full_env, ec_weight, all_growth>>

\* lines 233-244: one chart per selected school, from env_data[school] and
\* EC_MAP[school]
Tab2TimeSeries ==
    /\ pc = "tab2_timeseries"
    /\ IF \A i \in 1..Len(selected_schools) :
            HasKey(env_data, selected_schools[i]) /\ selected_schools[i] \in DOMAIN EC_MAP
       THEN /\ pc' = "tab2_export"
            /\ rendered' = Append(rendered, "timeseries")
            /\ UNCHANGED error
       ELSE Raise("KeyError", "tab2_timeseries") /\ UNCHANGED rendered
    /\ UNCHANGED <<disk, school_option, env_data, growth_data, file_paths, messages,
                   outputs>>

\* lines 246-259
Tab2Export ==
    /\ pc = "tab2_export"
    /\ full_env' = concat(env_data)
    /\ pc' = "tab3_weight"
    /\ rendered' = Append(rendered, "env_export")
    /\ UNCHANGED <<disk, school_option, env_data, growth_data, file_paths, messages,
                   error, selected_schools, overview_rows, total_plants,
                   optimal_school, avg_rows, ec_weight, all_growth>>

\* lines 267-280
Tab3Weight ==
    /\ pc = "tab3_weight"
    /\ LET r == ec_weight_of(growth_data)
       IN /\ ec_weight' = r.rows
          /\ IF r.raised # ""
             THEN Raise(r.raised, "tab3_weight") /\ UNCHANGED rendered
             ELSE /\ pc' = "tab3_growth"
                  /\ rendered' = Append(rendered, "weight")
                  /\ UNCHANGED error
    /\ UNCHANGED <<disk, school_option, env_data, growth_data, file_paths, messages,
                   selected_schools, overview_rows, total_plants, optimal_school,
                   avg_rows, full_env, all_growth>>

\* a step that reorders the cached growth mapping in place
Tab3GrowthInPlace ==
    /\ pc = "tab3_growth"
    /\ all_growth' = concat(growth_data)
    /\ growth_data' = Reverse(growth_data)
    /\ pc' = "done"
    /\ rendered' = Append(rendered, "growth_export")
    /\ UNCHANGED <<disk, school_option, env_data, file_paths, messages,
                   error, selected_schools, overview_rows, total_plants,
                   optimal_school, avg_rows, full_env, ec_weight>>

\* lines 283-328
Tab3Growth ==
    /\ pc = "tab3_growth"
    /\ all_growth' = concat(growth_data)
    /\ pc' = "done"
    /\ rendered' = Append(rendered, "growth_export")
    /\ UNCHANGED <<disk, school_option, env_data, growth_data, file_paths, messages,
                   error, selected_schools, overview_rows, total_plants,
                   optimal_school, avg_rows, full_env, ec_weight>>

Next ==
    \/ LoadEnvironmentData
    \/ LoadGrowthData
    \/ Barrier
    \/ Sidebar
    \/ Tab1Overview
    \/ Tab1Metrics
    \/ Tab2Averages
    \/ Tab2TimeSeries
    \/ Tab2Export
    \/ Tab3Weight
    \/ Tab3Growth

Spec == Init /\ [][Next]_vars

\* ------------------------------------------------------- the properties
Has(xs, x) == \E i \in 1..Len(xs) : xs[i] = x
Count(xs, x) == Cardinality({k \in 1..Len(xs) : xs[k] = x})
Rows(xs) == {xs[k] : k \in 1..Len(xs)}
Loading == {"load_env", "load_growth"}
NothingComputed ==
    /\ rendered = <<>>
    /\ selected_schools = <<>> /\ overview_rows = <<>> /\ optimal_school = None
    /\ avg_rows = <<>> /\ full_env = <<>> /\ ec_weight = <<>> /\ all_growth = <<>>

\* C1: when either mapping is empty after the two loaders the run stops at the
\* barrier and no later step (overview, averages, optimal school,
\* concatenation, export) is ever computed; those steps are reached only with
\* both mappings non-empty.
EmptyMappingStopsRun ==
    /\ (pc \notin Loading \cup {"barrier"} /\ error.at # "load_env"
          /\ (env_data = <<>> \/ growth_data = <<>>))
       => (pc = "stopped" /\ NothingComputed)
    /\ ~NothingComputed => (env_data # <<>> /\ growth_data # <<>>)

EmptyMappingStopsRunWitness ==
    pc = "stopped" /\ env_data = <<>> /\ growth_data # <<>> /\ Len(messages) = Len(csv_targets)

\* which CSV targets have a file in the directory
Present(i) == \E j \in 1..Len(disk) : normalize_name(Dir[j]) = normalize_name(csv_targets[i])
PresentTargets == {i \in 1..Len(csv_targets) : Present(i)}
CsvMessages == {k \in 1..Len(messages) : \E i \in 1..Len(csv_targets) : messages[k] = csv_targets[i]}

\* C2: for every subset of the four CSV files present, load_environment_data
\* does not raise, returns exactly one entry per present file and none for an
\* absent one, and emits exactly one message per absent file.
LoadEnvironmentToleratesMissingFiles ==
    pc # "load_env" =>
        /\ error.at # "load_env"
        /\ Keys(env_data) = {SplitPrefix(csv_targets[i]) : i \in PresentTargets}
        /\ Len(env_data) = Cardinality(PresentTargets)
        /\ Cardinality(CsvMessages) = Len(csv_targets) - Cardinality(PresentTargets)

\* C3: the averages step never ends the run with an unhandled error, whatever
\* the selector and whichever schools are loaded.
AveragesNeverCrash ==
    error.at \notin {"tab2_averages", "tab2_timeseries"}

\* C4: no overview row carries a silent default (None) as its target EC: a
\* loaded identity without an EC_MAP entry is an error, not a row.
NoSilentDefaultTargetEC ==
    \A i \in 1..Len(overview_rows) : overview_rows[i].ec # None

Matches(j, t) == normalize_name(disk[j].name) = normalize_name(t)

\* r is the result the contract asks for, given the NFC names of the entries
IsFirstMatch(r, t, nfc_names) ==
    LET t_nfc == normalize_name(t)
        hits == {j \in 1..Len(nfc_names) : nfc_names[j] = t_nfc}
    IN IF hits = {} THEN r = 0
       ELSE r \in hits /\ \A j \in hits : r <= j

\* C5: find_file_safe returns the first entry, in enumeration order, whose
\* NFC name equals the NFC target, and None exactly when there is no such
\* entry; canonically equivalent targets resolve to the same entry.
ResolverReturnsFirstNfcMatch ==
    (pc = "load_growth" \/ error.at = "load_env") =>
        LET nfc_names == [j \in 1..Len(disk) |-> normalize_name(disk[j].name)]
            directory == Dir
        IN /\ \A i \in 1..Len(file_paths) :
                IsFirstMatch(file_paths[i], csv_targets[i], nfc_names)
           /\ \A t \in NamePool :
                LET r == find_file_safe(directory, t)
                IN /\ IsFirstMatch(r, t, nfc_names)
                   /\ find_file_safe(directory, NFD(t)) = r
                   /\ find_file_safe(directory, Compose(<<>>, NFD(t))) = r

ResolverReturnsFirstNfcMatchWitness ==
    /\ pc = "load_growth"
    /\ \E i, j \in 1..Len(Dir) :
         /\ i < j /\ Dir[i] # Dir[j]
         /\ Matches(i, csv_targets[1]) /\ Matches(j, csv_targets[1])
         /\ Dir[i] # csv_targets[1]
         /\ file_paths[1] = i
    /\ \E k \in 1..Len(file_paths) : file_paths[k] = 0

\* C6: the optimal school has the maximum mean fresh weight of all loaded
\* sheets, and is the first such sheet in the order of growth_data.
OptimalIsFirstMaximum ==
    optimal_school # None =>
        LET means == weight_means(growth_data)
            b == CHOOSE i \in 1..Len(growth_data) :
                    growth_data[i].school = optimal_school[1]
        IN /\ \A i \in 1..Len(means) :
                means[i].nan \/ GreaterOrEqual(means[b], means[i])
           /\ \A i \in 1..(b - 1) :
                means[i].nan \/ Greater(means[b], means[i])

\* what max() does guarantee: when the first sheet has a mean, the optimal
\* school is the first sheet of maximum mean; otherwise it is the first sheet
MaxKeepsFirstSheetWithoutMean ==
    optimal_school # None =>
        LET means == weight_means(growth_data)
        IN IF means[1].nan
           THEN optimal_school[1] = growth_data[1].school
           ELSE OptimalIsFirstMaximum

\* C7: the overview has exactly one row per key of growth_data, each row's
\* count is the number of records of that sheet, and the total is their sum.
OverviewCountsEverySource ==
    Has(rendered, "overview") =>
        /\ Len(overview_rows) = Cardinality(Keys(growth_data))
        /\ \A k \in Keys(growth_data) :
             /\ Cardinality({i \in 1..Len(overview_rows) : overview_rows[i].school = k}) = 1
             /\ \A i \in 1..Len(overview_rows) :
                  overview_rows[i].school = k => overview_rows[i].count = Len(Lookup(growth_data, k))
        /\ total_plants = SumSeq([i \in 1..Len(growth_data) |-> Len(growth_data[i].df)])

OverviewCountsEverySourceWitness ==
    /\ Has(rendered, "overview")
    /\ Len(overview_rows) >= 2
    /\ total_plants >= 1
    /\ \E i \in 1..Len(overview_rows) : overview_rows[i].count = 0

\* t holds the rows of the tables of d, each as often as its table does
IsConcatenation(t, d) ==
    /\ Len(t) = SumSeq([i \in 1..Len(d) |-> Len(d[i].df)])
    /\ \A i \in 1..Len(d) : \A r \in Rows(d[i].df) :
          r.school = d[i].school /\ Count(t, r) = Count(d[i].df, r)
    /\ \A r \in Rows(t) : \E i \in 1..Len(d) : r \in Rows(d[i].df)

\* C8: the concatenation of k tables has n1+...+nk rows, holds every row of
\* every table exactly as often as its table does, each with the tag of its
\* table.
ConcatKeepsEveryRow ==
    /\ Has(rendered, "env_export") => IsConcatenation(full_env, env_data)
    /\ Has(rendered, "growth_export") => IsConcatenation(all_growth, growth_data)

ConcatKeepsEveryRowWitness ==
    /\ Has(rendered, "growth_export")
    /\ Len(growth_data) >= 2 /\ Len(all_growth) >= 2
    /\ Len(env_data) >= 2 /\ Len(full_env) >= 2

\* C9: no step after loading changes env_data or growth_data.
RawMappingsNeverChange ==
    [][pc \notin Loading => (env_data' = env_data /\ growth_data' = growth_data)]_vars

RawMappingsNeverChangeWitness ==
    pc = "done" /\ school_option = Haneul /\ Len(growth_data) >= 2

\* C10: every CSV file that resolves, whatever its number of rows, is stored
\* under the prefix of its logical name with every row tagged with it, and
\* the loader does not raise.
EveryResolvedFileIsKeyedByPrefix ==
    pc # "load_env" =>
        /\ error.at # "load_env"
        /\ \A i \in 1..Len(csv_targets) :
             LET f == find_file_safe(Dir, csv_targets[i])
                 s == SplitPrefix(csv_targets[i])
             IN f # 0 =>
                  /\ HasKey(env_data, s)
                  /\ Lookup(env_data, s) = TagRows(read_csv(disk[f]), s)

====
